---- MODULE Spec2Model ----
(***************************************************************************)
(* State-machine model of sbi.inference.ibsnre: RatioEstimator             *)
(* (snre_base.py) and its subclass SNRE_IB_A (snre_iba.py).                *)
(*                                                                         *)
(* One inference object is modelled.  Its fields are the variables; every  *)
(* public method is an action (train/anneal are split at the epoch loop:   *)
(* call set-up, loop test, epoch body, return).  Python objects live in    *)
(* two heaps (nets, posts); a field holding an object holds its address,   *)
(* so that aliasing and deepcopy can be told apart.                        *)
(***************************************************************************)
EXTENDS Integers, Sequences, FiniteSets, TLC

\* ------------------------------------------------------------------ bounds
MaxCalls == 3        \* append_simulations + train + anneal calls in one run
MaxBuilds == 2       \* build_posterior calls in one run
MaxRound == 1        \* from_round ranges over 0..MaxRound
MaxRows == 2         \* theta / x have 1..MaxRows rows
MaxEpochs == 2       \* max_num_epochs ranges over 0..MaxEpochs
MaxVal == 1          \* a validation log-prob is one of 0..MaxVal
MaxStop == MaxEpochs            \* stop_after_epochs ranges over 1..MaxStop
NumParamVals == MaxEpochs + 1   \* parameter values 0..NumParamVals-1

\* float("-Inf"): below every validation log-prob of 0..MaxVal
NegInf == -1

\* default stop_after_epochs of anneal (2 ** 31 - 1), which SNRE_IB_A.anneal
\* leaves in place
DefaultStopAfterEpochs == 2147483647

VARIABLES
    theta_roundwise,      \* self._theta_roundwise: list of stored theta batches
    x_roundwise,          \* self._x_roundwise
    prior_masks,          \* self._prior_masks
    data_round_index,     \* self._data_round_index
    round,                \* self._round
    nets,                 \* heap of nn.Module objects: address -> parameter value
    neural_net,           \* self._neural_net: address in nets, 0 for None
    optimizer,            \* self.optimizer: [id, net]; id 0 = attribute not set
    epoch,                \* self.epoch
    val_log_prob,         \* self._val_log_prob
    best_val_log_prob,    \* self._best_val_log_prob
    epochs_since_last_improvement,
    best_model_state_dict,
    posts,                \* heap of posterior objects
    posterior,            \* self._posterior: address in posts, 0 for None
    model_bank,           \* self._model_bank: list of addresses in posts
    pc,                   \* position of the running train/anneal call, or "idle"
    args,                 \* arguments and locals of the current / last call
    outcome,              \* how the last finished call ended, and its value
    handed,               \* what the caller was handed: addresses of nets and
                          \* posteriors, and each net's parameters when returned
    n,                    \* calls made so far: [calls, builds, built]
    since_imp,            \* history: consecutive epochs without strict improvement
    best_seen,            \* history: best validation log-prob since the last reset
    train_done            \* history: some train call has returned

vars == <<theta_roundwise, x_roundwise, prior_masks, data_round_index, round,
          nets, neural_net, optimizer, epoch, val_log_prob, best_val_log_prob,
          epochs_since_last_improvement, best_model_state_dict, posts, posterior,
          model_bank, pc, args, outcome, handed, n, since_imp, best_seen,
          train_done>>

store_vars == <<theta_roundwise, x_roundwise, prior_masks, data_round_index>>
train_vars == <<round, neural_net, optimizer, epoch, val_log_prob,
                best_val_log_prob, epochs_since_last_improvement,
                best_model_state_dict, since_imp, best_seen, train_done>>
post_vars == <<posts, posterior, model_bank>>

Max(S) == CHOOSE m \in S : \A k \in S : k <= m
Range(s) == {s[k] : k \in 1..Len(s)}

\* a weight lambda is a fraction num / den; den = 0: _loss was not called
NoLambda == [num |-> 0, den |-> 0]

NoArgs == [op |-> "none", resume |-> FALSE, discard |-> FALSE, retrain |-> FALSE,
           max |-> 0, stop |-> 0, epochs_run |-> 0, dataset |-> {},
           est |-> 0, sample_with |-> "none", old_opt |-> 0, old_epoch |-> 0,
           theta_rows |-> 0, x_rows |-> 0,
           lagrange |-> 0, loss_lambda |-> NoLambda, val_lambda |-> NoLambda]

\* the object after __init__, whatever the next call's arguments are
Constructed ==
    /\ theta_roundwise = <<>>
    /\ x_roundwise = <<>>
    /\ prior_masks = <<>>
    /\ data_round_index = <<>>
    /\ round = 0
    /\ nets = <<>>
    /\ neural_net = 0
    /\ optimizer = [id |-> 0, net |-> 0]
    /\ epoch = 0
    /\ val_log_prob = NegInf
    /\ best_val_log_prob = NegInf
    /\ epochs_since_last_improvement = 0
    /\ best_model_state_dict = 0
    /\ posts = <<>>
    /\ posterior = 0
    /\ model_bank = <<>>
    /\ pc = "idle"
    /\ outcome = [op |-> "none", status |-> "none", kind |-> "none", value |-> 0]
    /\ handed = [net |-> {}, post |-> {}, snap |-> {}]
    /\ n = [calls |-> 0, builds |-> 0, built |-> 0]
    /\ since_imp = 0
    /\ best_seen = NegInf
    /\ train_done = FALSE

Init == Constructed /\ args = NoArgs

\* ------------------------------------------------------- append_simulations

\* sbi.utils.validate_theta_and_x: theta and x must have the same number of rows
validate_theta_and_x(theta, x) == theta.rows = x.rows

\* sbi.utils.sbiutils.mask_sims_from_prior: one boolean per row, true for round 0
mask_sims_from_prior(from_round, num_rows) ==
    [k \in 1..num_rows |-> from_round = 0]

\* mutant: the round tag is not stored
append_entry_no_round(st, theta, x, from_round) ==
    [theta |-> Append(st.theta, theta),
     x |-> Append(st.x, x),
     masks |-> Append(st.masks, mask_sims_from_prior(from_round, theta.rows)),
     rounds |-> st.rounds]

\* lines 124-127: the four appends
append_entry(st, theta, x, from_round) ==
    [theta |-> Append(st.theta, theta),
     x |-> Append(st.x, x),
     masks |-> Append(st.masks, mask_sims_from_prior(from_round, theta.rows)),
     rounds |-> Append(st.rounds, from_round)]

append_simulations(theta_rows, x_rows, from_round) ==
    LET theta == [batch |-> n.calls + 1, rows |-> theta_rows]
        x == [batch |-> n.calls + 1, rows |-> x_rows]
        st == [theta |-> theta_roundwise, x |-> x_roundwise,
               masks |-> prior_masks, rounds |-> data_round_index]
        new == append_entry(st, theta, x, from_round)
    IN  /\ pc = "idle"
        /\ n.calls < MaxCalls
        /\ n' = [n EXCEPT !.calls = @ + 1]
        /\ args' = [NoArgs EXCEPT !.op = "append_simulations",
                                  !.theta_rows = theta_rows, !.x_rows = x_rows]
        /\ IF validate_theta_and_x(theta, x)
           THEN /\ theta_roundwise' = new.theta
                /\ x_roundwise' = new.x
                /\ prior_masks' = new.masks
                /\ data_round_index' = new.rounds
                /\ outcome' = [op |-> "append_simulations", status |-> "returned",
                               kind |-> "self", value |-> 0]
           ELSE /\ UNCHANGED store_vars
                /\ outcome' = [op |-> "append_simulations",
                               status |-> "AssertionError",
                               kind |-> "none", value |-> 0]
        /\ UNCHANGED <<train_vars, post_vars, nets, pc, handed>>

\* ------------------------------------------------------------ train / anneal

\* line 173 / 353: starting index for the training set, computed from the
\* round stored by the previous call
start_idx(discard_prior_samples, stored_round) ==
    IF discard_prior_samples /\ stored_round > 0 THEN 1 ELSE 0

\* NeuralInference.get_simulations: the stored batches of round >= starting_round
get_simulations(starting_round) ==
    {k \in 1..Len(data_round_index) : data_round_index[k] >= starting_round}

\* mutant: the training state is reset whatever resume_training says
init_training_always(resume_training, net, st) ==
    [optimizer |-> [id |-> st.optimizer.id + 1, net |-> net],
     epoch |-> 0, val_log_prob |-> NegInf]

\* mutant: a new optimizer is made, the epoch counter is left as it was
init_training_keep_epoch(resume_training, net, st) ==
    IF ~resume_training
    THEN [optimizer |-> [id |-> st.optimizer.id + 1, net |-> net],
          epoch |-> st.epoch, val_log_prob |-> NegInf]
    ELSE st

\* lines 210-215 / 390-395: optimizer, epoch and last validation log-prob
init_training(resume_training, net, st) ==
    IF ~resume_training
    THEN [optimizer |-> [id |-> st.optimizer.id + 1, net |-> net],
          epoch |-> 0, val_log_prob |-> NegInf]
    ELSE st

\* NeuralInference._converged(epoch, stop_after_epochs): the bookkeeping it
\* leaves and the value it returns
converged(e, stop_after_epochs) ==
    LET improved == e = 0 \/ val_log_prob > best_val_log_prob
        since == IF improved THEN 0 ELSE epochs_since_last_improvement + 1
    IN  [best |-> IF improved THEN val_log_prob ELSE best_val_log_prob,
         since |-> since,
         state_dict |-> IF improved THEN nets[neural_net]
                        ELSE best_model_state_dict,
         conv |-> since > stop_after_epochs - 1]

\* lagrange_multiplier is counted in hundredths: LambdaDen hundredths are 1.0
LambdaDen == 100

\* line 347: epsilon = 0.01, in hundredths
epsilon == 1

\* e ** annealing_rate (line 346 asserts annealing_rate > 0, so it is > 1):
\* exp(-annealing_rate * x) is 1 / CoolingBase ** x
CoolingBase == 2

RECURSIVE Pow(_, _)
Pow(b, x) == IF x = 0 THEN 1 ELSE b * Pow(b, x - 1)

\* the caller's lagrange_multiplier as a fraction
target(lagrange_multiplier) == [num |-> lagrange_multiplier, den |-> LambdaDen]

\* lines 348-350: lagrange_multiplier + (epsilon - lagrange_multiplier) *
\* exp(-annealing_rate * x), as a fraction over LambdaDen * CoolingBase ** x
law_of_cooling(lagrange_multiplier, x) ==
    [num |-> lagrange_multiplier * Pow(CoolingBase, x)
               + (epsilon - lagrange_multiplier),
     den |-> LambdaDen * Pow(CoolingBase, x)]

\* one optimizer step on a network's parameters
step(params) == (params + 1) % NumParamVals

\* lines 170-215 (train) and 346-395 (anneal): everything before the epoch loop
train_call(op, resume_training, discard_prior_samples, retrain_from_scratch, max_num_epochs, stop_after_epochs, lagrange_multiplier) ==
    LET idx == start_idx(discard_prior_samples, round)
        build == neural_net = 0 \/ retrain_from_scratch
        net == IF build THEN Len(nets) + 1 ELSE neural_net
        st == init_training(resume_training, net,
                            [optimizer |-> optimizer, epoch |-> epoch,
                             val_log_prob |-> val_log_prob])
        a == [NoArgs EXCEPT !.op = op, !.resume = resume_training,
                            !.discard = discard_prior_samples,
                            !.retrain = retrain_from_scratch,
                            !.max = max_num_epochs, !.stop = stop_after_epochs,
                            !.old_opt = optimizer.id, !.old_epoch = epoch,
                            !.lagrange = lagrange_multiplier]
    IN  /\ pc = "idle"
        /\ n.calls < MaxCalls
        \* resuming presupposes the training state of an earlier call
        /\ resume_training => optimizer.id # 0
        /\ n' = [n EXCEPT !.calls = @ + 1]
        /\ IF data_round_index = <<>>
           THEN \* line 175: max() of an empty list
                /\ args' = a
                /\ outcome' = [op |-> op, status |-> "ValueError",
                               kind |-> "none", value |-> 0]
                /\ UNCHANGED <<train_vars, nets, pc>>
           ELSE /\ round' = Max(Range(data_round_index))
                /\ args' = [a EXCEPT !.dataset = get_simulations(idx)]
                /\ nets' = IF build THEN Append(nets, 0) ELSE nets
                /\ neural_net' = net
                /\ optimizer' = st.optimizer
                /\ epoch' = st.epoch
                /\ val_log_prob' = st.val_log_prob
                /\ since_imp' = IF resume_training THEN since_imp ELSE 0
                /\ best_seen' = IF resume_training THEN best_seen ELSE NegInf
                /\ pc' = "loop"
                /\ UNCHANGED <<best_val_log_prob, epochs_since_last_improvement,
                               best_model_state_dict, train_done, outcome>>
        /\ UNCHANGED <<store_vars, post_vars, handed>>

\* line 217-219 (train) and 397-401 (anneal): the loop condition, with the
\* bookkeeping _converged does while it is evaluated
loop_test ==
    LET c == converged(epoch, args.stop)
    IN  /\ pc = "loop"
        /\ IF epoch < args.max
           THEN /\ best_val_log_prob' = c.best
                /\ epochs_since_last_improvement' = c.since
                /\ best_model_state_dict' = c.state_dict
                /\ nets' = IF c.conv
                           THEN [nets EXCEPT ![neural_net] = c.state_dict]
                           ELSE nets
                /\ pc' = IF args.op = "train" /\ c.conv THEN "exit" ELSE "body"
           ELSE /\ pc' = "exit"
                /\ UNCHANGED <<best_val_log_prob, epochs_since_last_improvement,
                               best_model_state_dict, nets>>
        /\ UNCHANGED <<store_vars, post_vars, round, neural_net, optimizer, epoch,
                       val_log_prob, since_imp, best_seen, train_done, args,
                       outcome, handed, n>>

\* lines 221-285: one epoch of train (training pass, then validation pass)
train_epoch(val, stale_moves) ==
    /\ pc = "body"
    /\ args.op = "train"
    /\ nets' = IF optimizer.net = neural_net \/ stale_moves
               THEN [nets EXCEPT ![optimizer.net] = step(@)]
               ELSE nets
    /\ epoch' = epoch + 1
    /\ val_log_prob' = val
    \* lines 231-233 and 264-266: _loss is given lagrange_multiplier both times
    /\ args' = [args EXCEPT !.epochs_run = @ + 1,
                            !.loss_lambda = target(args.lagrange),
                            !.val_lambda = target(args.lagrange)]
    /\ since_imp' = IF val > best_seen THEN 0 ELSE since_imp + 1
    /\ best_seen' = IF val > best_seen THEN val ELSE best_seen
    /\ pc' = "loop"
    /\ UNCHANGED <<store_vars, post_vars, round, neural_net, optimizer,
                   best_val_log_prob, epochs_since_last_improvement,
                   best_model_state_dict, train_done, outcome, handed, n>>

\* lines 403-418: the epoch of anneal.  Line 403 computes the annealed weight
\* from self.epoch and line 415 gives it to _loss.  _loss returns a 3-tuple
\* (line 589) and line 415 binds the whole tuple, so torch.mean at line 418
\* raises TypeError in the first minibatch, after zero_grad and before any
\* optimizer step; the validation pass (lines 436-452) is not reached
anneal_epoch ==
    /\ pc = "body"
    /\ args.op = "anneal"
    /\ args' = [args EXCEPT !.loss_lambda = law_of_cooling(args.lagrange, epoch)]
    /\ pc' = "idle"
    /\ outcome' = [op |-> "anneal", status |-> "TypeError",
                   kind |-> "none", value |-> 0]
    /\ UNCHANGED <<store_vars, post_vars, train_vars, nets, handed, n>>

\* mutant: the internal network itself is returned
returned_net_alias(heap, net) == net

\* line 305 / 476: deepcopy(self._neural_net), a new object
returned_net(heap, net) == Len(heap) + 1

\* lines 287-305 / 458-476: after the loop
train_return ==
    LET ret == returned_net(nets, neural_net)
    IN  /\ pc = "exit"
        /\ nets' = IF ret > Len(nets) THEN Append(nets, nets[neural_net]) ELSE nets
        /\ outcome' = [op |-> args.op, status |-> "returned",
                       kind |-> "net", value |-> ret]
        /\ handed' = [handed EXCEPT !.net = @ \cup {ret},
                                     !.snap = @ \cup {<<ret, nets[neural_net]>>}]
        /\ train_done' = (train_done \/ args.op = "train")
        /\ pc' = "idle"
        /\ UNCHANGED <<store_vars, post_vars, round, neural_net, optimizer, epoch,
                       val_log_prob, best_val_log_prob,
                       epochs_since_last_improvement, best_model_state_dict,
                       since_imp, best_seen, args, n>>

\* ------------------------------------------------------------ build_posterior

SampleWith == {"mcmc", "rejection", "vi", "importance"}

\* lines 651 and 661: the two supported values of sample_with
supported(sample_with) == sample_with \in {"mcmc", "rejection"}

\* line 647-649: the estimator handed to ratio_estimator_based_potential
potential_estimator(density_estimator, internal_net) == internal_net

\* mutant: self._posterior is assigned before sample_with is looked at
new_posterior_eager(sample_with, current, fresh) == fresh

\* lines 651-672: self._posterior after the if/elif chain (current when it raised)
new_posterior(sample_with, current, fresh) ==
    IF supported(sample_with) THEN fresh ELSE current

\* mutant: self._posterior itself is returned
build_result_alias(heap, internal) == internal

\* line 677: deepcopy(self._posterior), a new object
build_result(heap, internal) == Len(heap) + 1

\* deepcopy of a posterior: the copy owns a copy of the estimator's parameters
deepcopy_posterior(p) == [p EXCEPT !.own = TRUE, !.params = nets[p.src]]

build_posterior(density_estimator, sample_with) ==
    LET fresh == Len(posts) + 1
        p == [src |-> potential_estimator(density_estimator, neural_net),
              own |-> FALSE, params |-> 0, kind |-> sample_with, mark |-> 0]
        stored == new_posterior(sample_with, posterior, fresh)
        assigned == IF stored = fresh THEN Append(posts, p) ELSE posts
        banked == Append(assigned, deepcopy_posterior(p))
        ret == build_result(banked, stored)
    IN  /\ pc = "idle"
        /\ neural_net # 0
        /\ n.builds < MaxBuilds
        /\ args' = [NoArgs EXCEPT !.op = "build_posterior",
                                  !.est = density_estimator,
                                  !.sample_with = sample_with]
        /\ posterior' = stored
        /\ IF supported(sample_with)
           THEN /\ model_bank' = Append(model_bank, Len(banked))
                /\ posts' = IF ret > Len(banked)
                            THEN Append(banked, deepcopy_posterior(p))
                            ELSE banked
                /\ outcome' = [op |-> "build_posterior", status |-> "returned",
                               kind |-> "posterior", value |-> ret]
                /\ handed' = [handed EXCEPT !.post = @ \cup {ret}]
                /\ n' = [n EXCEPT !.builds = @ + 1, !.built = @ + 1]
           ELSE /\ model_bank' = model_bank
                /\ posts' = assigned
                /\ outcome' = [op |-> "build_posterior",
                               status |-> "NotImplementedError",
                               kind |-> "none", value |-> 0]
                /\ handed' = handed
                /\ n' = [n EXCEPT !.builds = @ + 1]
        /\ UNCHANGED <<store_vars, train_vars, nets, pc>>

\* the caller changes a posterior it was handed (for instance set_default_x)
mutate_returned(a) ==
    /\ pc = "idle"
    /\ a \in handed.post
    /\ posts[a].mark = 0
    /\ posts' = [posts EXCEPT ![a].mark = 1]
    /\ UNCHANGED <<store_vars, train_vars, nets, posterior, model_bank, pc, args,
                   outcome, handed, n>>

\* values of lagrange_multiplier, in hundredths
Lambdas == {0, LambdaDen \div 2, LambdaDen}

Next ==
    \/ \E t \in 1..MaxRows, x \in 1..MaxRows, r \in 0..MaxRound :
          append_simulations(t, x, r)
    \/ \E resume \in BOOLEAN, discard \in BOOLEAN, retrain \in BOOLEAN,
          m \in 0..MaxEpochs, s \in 1..MaxStop, l \in Lambdas :
          train_call("train", resume, discard, retrain, m, s, l)
    \/ \E resume \in BOOLEAN, discard \in BOOLEAN, retrain \in BOOLEAN,
          m \in 0..MaxEpochs, l \in Lambdas :
          train_call("anneal", resume, discard, retrain, m, DefaultStopAfterEpochs, l)
    \/ loop_test
    \/ \E v \in 0..MaxVal, b \in BOOLEAN : train_epoch(v, b)
    \/ anneal_epoch
    \/ train_return
    \/ \E e \in {0} \cup handed.net, sw \in SampleWith : build_posterior(e, sw)
    \/ \E a \in handed.post : mutate_returned(a)

Spec == Init /\ [][Next]_vars

\* The data store alone: every append_simulations call, nothing else.
NextData ==
    \E t \in 1..MaxRows, x \in 1..MaxRows, r \in 0..MaxRound :
        append_simulations(t, x, r)

SpecData == Init /\ [][NextData]_vars

\* Training alone: well-formed batches of any round, then train / anneal calls
\* with lagrange_multiplier = 0.0, the default of RatioEstimator.train.
NextTrain ==
    \/ \E r \in 0..MaxRound : append_simulations(1, 1, r)
    \/ \E resume \in BOOLEAN, discard \in BOOLEAN, retrain \in BOOLEAN,
          m \in 0..MaxEpochs, s \in 1..MaxStop :
          train_call("train", resume, discard, retrain, m, s, 0)
    \/ \E resume \in BOOLEAN, discard \in BOOLEAN, retrain \in BOOLEAN,
          m \in 0..MaxEpochs :
          train_call("anneal", resume, discard, retrain, m, DefaultStopAfterEpochs, 0)
    \/ loop_test
    \/ \E v \in 0..MaxVal, b \in BOOLEAN : train_epoch(v, b)
    \/ anneal_epoch
    \/ train_return

SpecTrain == Init /\ [][NextTrain]_vars

\* Posterior building: one batch, one-epoch train calls, then build_posterior
\* calls and a caller that changes what it was handed.
NextPost ==
    \/ append_simulations(1, 1, 0)
    \/ \E retrain \in BOOLEAN : train_call("train", FALSE, FALSE, retrain, 1, 1, 0)
    \/ loop_test
    \/ train_epoch(0, FALSE)
    \/ train_return
    \/ \E e \in {0} \cup handed.net, sw \in SampleWith : build_posterior(e, sw)
    \/ \E a \in handed.post : mutate_returned(a)

SpecPost == Init /\ [][NextPost]_vars

\* The epoch loop of train alone: one batch, then train calls that may resume,
\* with room for one epoch more than MaxEpochs.
NextResume ==
    \/ append_simulations(1, 1, 0)
    \/ \E resume \in BOOLEAN, m \in 0..(MaxEpochs + 1), s \in 1..MaxStop :
          train_call("train", resume, FALSE, FALSE, m, s, 0)
    \/ loop_test
    \/ \E v \in 0..MaxVal : train_epoch(v, FALSE)
    \/ train_return

SpecResume == Init /\ [][NextResume]_vars

\* Annealing: one batch, train calls from scratch, then anneal calls that may
\* resume, with any lagrange_multiplier and room for one epoch more than
\* MaxEpochs.
NextAnneal ==
    \/ append_simulations(1, 1, 0)
    \/ \E m \in 0..MaxEpochs :
          train_call("train", FALSE, FALSE, FALSE, m, MaxStop, 0)
    \/ \E resume \in BOOLEAN, m \in 0..(MaxEpochs + 1), l \in Lambdas :
          train_call("anneal", resume, FALSE, FALSE, m, DefaultStopAfterEpochs, l)
    \/ loop_test
    \/ \E v \in 0..MaxVal : train_epoch(v, FALSE)
    \/ anneal_epoch
    \/ train_return

SpecAnneal == Init /\ [][NextAnneal]_vars

\* --------------------------------------------------------------- atom count
MaxBatch == 4        \* a minibatch has up to MaxBatch rows
MaxAtoms == 3        \* num_atoms handed to the atomic sampler: 2..MaxAtoms

Min(S) == CHOOSE m \in S : \A k \in S : m <= k

\* sbi.utils.clamp_and_warn: max(min_val, min(value, max_val))
clamp_and_warn(value, min_val, max_val) == Max({min_val, Min({value, max_val})})

\* line 191 / 371: min(training_batch_size, len(val_loader)); len() of a
\* DataLoader is its number of minibatches
clipped_batch_size(training_batch_size, val_loader) ==
    Min({training_batch_size, val_loader.len})

\* lines 183-195 (train) and 363-375 (anneal): the loaders that
\* get_dataloaders handed back, then the local num_atoms that _loss is given
clamp_num_atoms(op) ==
    /\ pc = "idle"
    /\ args.op = "none"
    /\ args' = [args EXCEPT
                  !.op = op,
                  !.num_atoms = clamp_and_warn(args.num_atoms, 2,
                                    clipped_batch_size(args.training_batch_size,
                                                       args.val_loader))]
    /\ UNCHANGED <<store_vars, train_vars, post_vars, nets, pc, outcome, handed, n>>

\* The arguments of a train / anneal call and the loaders made for it: every
\* minibatch has at least two rows, a loader at least one minibatch.
InitClamp ==
    /\ Constructed
    /\ args \in {[op |-> "none", num_atoms_arg |-> k, num_atoms |-> k,
                  training_batch_size |-> b,
                  train_loader |-> [batch_size |-> tb],
                  val_loader |-> [batch_size |-> vb, len |-> vl]] :
                 k \in 1..(MaxBatch + 1), b \in 2..MaxBatch, tb \in 2..MaxBatch,
                 vb \in 2..MaxBatch, vl \in 1..MaxBatch}

NextClamp == \E op \in {"train", "anneal"} : clamp_num_atoms(op)

SpecClamp == InitClamp /\ [][NextClamp]_vars

\* ------------------------------------------------------------------- loss
MaxTerm == 2         \* a reduced loss term evaluates to one of 0..MaxTerm

\* A tensor of the loss engine is [shape, val]: shape is the sequence of its
\* dimensions (<<>> for a 0-dim tensor), val the number a 0-dim tensor holds.
RECURSIVE numel(_)
numel(shape) == IF shape = <<>> THEN 1 ELSE Head(shape) * numel(Tail(shape))

\* Tensor.squeeze(): the dimensions of size 1 are dropped
squeeze(shape) == SelectSeq(shape, LAMBDA d : d # 1)

\* torch.binary_cross_entropy_with_logits(input, target) as lines 166, 190 and
\* 193 of snre_iba.py call it: no reduction argument is given, and the default
\* reduction is the mean over all elements, a 0-dim tensor
binary_cross_entropy_with_logits(input, targets) == <<>>

\* torch.logsumexp(t, dim=-1): the last dimension is reduced; a 0-dim tensor
\* stays 0-dim
logsumexp(shape) == IF shape = <<>> THEN <<>> ELSE SubSeq(shape, 1, Len(shape) - 1)

\* snre_iba.py lines 162-167: the shape of _correction(logits, dim=-1)
correction(logits) ==
    LET neg_h == binary_cross_entropy_with_logits(logits, logits)
    IN  logsumexp(neg_h)

\* snre_iba.py lines 169-205: _loss_terms for a minibatch on which both
\* atomic batches could be drawn; v holds what the three reductions evaluate
\* to.  labels has 2 * batch_size elements, so the cross-entropy at line 190
\* raises unless logits has as many
loss_terms(batch_size, num_atoms, v) ==
    LET logits == squeeze(<<batch_size * num_atoms, 1>>)
        labels == <<2 * batch_size>>
        logits_ == <<num_atoms * batch_size, batch_size - 1>>
    IN  IF logits # labels
        THEN [raised |-> TRUE, terms |-> <<>>]
        ELSE [raised |-> FALSE,
              terms |-> <<[shape |-> binary_cross_entropy_with_logits(logits, labels),
                           val |-> v.entropy_yw],
                          [shape |-> binary_cross_entropy_with_logits(logits, logits),
                           val |-> v.entropy_zw],
                          [shape |-> correction(logits_),
                           val |-> v.exp_neg_entropy_zw]>>]

\* the shape of an elementwise operation on two tensors, one of them 0-dim or
\* both of one shape
broadcast(a, b) == IF a = <<>> THEN b ELSE a

\* lines 561-571: (1 - lagrange_multiplier) * entropy_yw - lagrange_multiplier
\* * (entropy_zw + exp_neg_entropy_zw); lagrange_multiplier is in hundredths,
\* and so is the value of the result
convex_combine(entropy_yw, entropy_zw, exp_neg_entropy_zw, lagrange_multiplier) ==
    [shape |-> broadcast(entropy_yw.shape,
                         broadcast(entropy_zw.shape, exp_neg_entropy_zw.shape)),
     val |-> (LambdaDen - lagrange_multiplier) * entropy_yw.val
               - lagrange_multiplier * (entropy_zw.val + exp_neg_entropy_zw.val)]

\* lines 578-595: objective, regularizer, mixed
loss(terms, lagrange_multiplier) ==
    <<terms[1],
      [shape |-> broadcast(terms[2].shape, terms[3].shape),
       val |-> terms[2].val + terms[3].val],
      convex_combine(terms[1], terms[2], terms[3], lagrange_multiplier)>>

\* one call of _loss on the minibatch
loss_call ==
    LET t == loss_terms(args.batch_size, args.num_atoms, args)
    IN  /\ pc = "idle"
        /\ outcome' = IF t.raised
                      THEN [op |-> "_loss", status |-> "RuntimeError",
                            kind |-> "none", value |-> <<>>]
                      ELSE [op |-> "_loss", status |-> "returned",
                            kind |-> "loss", value |-> loss(t.terms, args.lagrange)]
        /\ UNCHANGED <<store_vars, train_vars, post_vars, nets, pc, args, handed, n>>

\* lines 255-283: the validation pass of train over a loader of one minibatch.
\* Line 272 accumulates the third element of _loss; the averages are fractions
validation_pass ==
    LET t == loss_terms(args.batch_size, args.num_atoms, args)
        l == loss(t.terms, args.lagrange)
        val_objective == l[1]
        val_regularizer == l[2]
        val_losses == l[3]
        len_times_batch_size == 1 * args.batch_size
    IN  /\ pc = "idle"
        /\ outcome' =
             IF t.raised
             THEN [op |-> "validation", status |-> "RuntimeError",
                   kind |-> "none", value |-> <<>>]
             ELSE [op |-> "validation", status |-> "returned", kind |-> "summary",
                   value |->
                     [val_obj_avg |-> [num |-> 0 - val_objective.val,
                                       den |-> len_times_batch_size],
                      val_reg_avg |-> [num |-> 0 - val_regularizer.val,
                                       den |-> len_times_batch_size],
                      val_log_prob |-> [num |-> 0 - val_losses.val,
                                        den |-> LambdaDen * len_times_batch_size]]]
        /\ UNCHANGED <<store_vars, train_vars, post_vars, nets, pc, args, handed, n>>

\* A minibatch, an atom count, a weight, and what the classifier makes the
\* three reductions evaluate to.
InitLoss ==
    /\ Constructed
    /\ args \in {[op |-> "none", batch_size |-> b, num_atoms |-> k, lagrange |-> l,
                  entropy_yw |-> yw, entropy_zw |-> zw, exp_neg_entropy_zw |-> c] :
                 b \in 3..MaxBatch, k \in 2..MaxAtoms, l \in Lambdas,
                 yw \in 0..MaxTerm, zw \in 0..MaxTerm, c \in 0..MaxTerm}

NextLoss == loss_call \/ validation_pass

SpecLoss == InitLoss /\ [][NextLoss]_vars

\* --------------------------------------------------------- atomic sampler
\* A tensor with a leading batch dimension is a function on 0..rows-1; row r
\* of theta and row r of x of a minibatch are both written r, the position of
\* the simulation in the minibatch.
size(t) == Cardinality(DOMAIN t)
batch(batch_size) == [r \in 0..(batch_size - 1) |-> r]

\* sbi.utils.repeat_rows(x, num_reps): each row num_reps times, side by side
repeat_rows(t, num_reps) ==
    [f \in 0..(size(t) * num_reps - 1) |-> t[f \div num_reps]]

\* mutant: the first b - 1 entries of every row are kept, not the off-diagonal
\* ones
expand_keep_first(t) ==
    [a \in 0..(size(t) - 1) |-> [m \in 0..(size(t) - 2) |-> t[m]]]

\* lines 479-491: expand to [b, b, ...] (entry [a][c] is row c), drop the
\* entries the mask ~eye(b) leaves out, reshape what is kept, in row-major
\* order, to [b, b - 1, ...]
expand_exclude_same(t) ==
    LET b == size(t)
        expanded == [f \in 0..(b * b - 1) |-> t[f % b]]
        kept == {f \in 0..(b * b - 1) : (f \div b) # (f % b)}
        nth(p) == CHOOSE f \in kept : Cardinality({g \in kept : g < f}) = p
    IN  [a \in 0..(b - 1) |-> [m \in 0..(b - 2) |-> expanded[nth(a * (b - 1) + m)]]]

\* mutant: without the factor (1 - eye(b)), every entry is 1 / (b - 1)
probs_with_diagonal(b) ==
    [r \in 0..(b - 1) |-> [c \in 0..(b - 1) |-> [num |-> 1, den |-> b - 1]]]

\* line 502 / 533-537: ones(b, b) * (1 - eye(b)) / (b - 1), each entry a
\* fraction; b = 1 makes the entries 0 / 0
probs(b) ==
    [r \in 0..(b - 1) |->
        [c \in 0..(b - 1) |-> [num |-> IF c = r THEN 0 ELSE 1, den |-> b - 1]]]

\* the ways to list num different members of S
Draws(S, num) ==
    {s \in [1..num -> S] : \A a, c \in 1..num : a # c => s[a] # s[c]}

Raised == [raised |-> TRUE, choices |-> <<>>]

\* torch.multinomial(w, num_samples, replacement=False) on one row of
\* probabilities.  It raises when num_samples exceeds the number of entries
\* and when an entry is nan or inf.  Its documentation requires num_samples
\* not to exceed the number of non-zero entries; inside that contract it
\* returns num_samples different non-zero entries.  Outside it the outcome
\* depends on the torch build: RuntimeError, or num_samples different
\* entries, the zero ones after the non-zero ones.
multinomial(w, num_samples) ==
    LET entries == DOMAIN w
        nonzero == {c \in entries : w[c].num # 0}
        drawn(S) == {[raised |-> FALSE, choices |-> s] : s \in Draws(S, num_samples)}
    IN  IF num_samples > Cardinality(entries) \/ \E c \in entries : w[c].den = 0
        THEN {Raised}
        ELSE IF num_samples <= Cardinality(nonzero)
        THEN drawn(nonzero)
        ELSE {Raised} \cup
             {o \in drawn(entries) :
                 \A a \in 1..Cardinality(nonzero) : o.choices[a] \in nonzero}

\* torch.multinomial on a matrix: every row is drawn on its own, and the call
\* raises when a row does
multinomial_rows(p, num_samples) ==
    LET rows == DOMAIN p
        per(m) == multinomial(p[m], num_samples)
        good(m) == {o.choices : o \in {q \in per(m) : ~q.raised}}
        all == UNION {good(m) : m \in rows}
    IN  (IF \E m \in rows : Raised \in per(m) THEN {Raised} ELSE {})
        \cup {[raised |-> FALSE, choices |-> ch] :
                 ch \in {f \in [rows -> all] : \A m \in rows : f[m] \in good(m)}}

\* lines 493-512, for the anchor row i: the rows i * num_atoms ..
\* i * num_atoms + num_atoms - 1 of the atomic batch the classifier is given,
\* when multinomial returned choices for row i
classifier_atoms(theta, x, num_atoms, i, choices) ==
    LET repeated_x == repeat_rows(x, num_atoms)
        contrasting_theta == [k \in 1..(num_atoms - 1) |-> theta[choices[k]]]
        cat(a) == [k \in 0..(num_atoms - 1) |->
                      IF k = 0 THEN theta[a] ELSE contrasting_theta[k]]
    IN  [rows |-> size(repeated_x),
         atoms |-> [f \in (i * num_atoms)..(i * num_atoms + num_atoms - 1) |->
                       [theta |-> cat(f \div num_atoms)[f % num_atoms],
                        x |-> repeated_x[f]]]]

\* one call of _classifier_logits on the minibatch, seen at anchor row i
classifier_logits(i, o) ==
    LET theta == batch(args.batch_size)
        x == batch(args.batch_size)
    IN  /\ pc = "idle"
        /\ outcome' =
             IF o.raised
             THEN [op |-> "_classifier_logits", status |-> "RuntimeError",
                   kind |-> "none", anchor |-> i, value |-> <<>>]
             ELSE [op |-> "_classifier_logits", status |-> "returned",
                   kind |-> "atoms", anchor |-> i,
                   value |-> classifier_atoms(theta, x, args.num_atoms, i, o.choices)]
        /\ UNCHANGED <<store_vars, train_vars, post_vars, nets, pc, args, handed, n>>

\* lines 514-554, for the anchor row i: the rows of the correction atomic
\* batch that belong to i (flat order: anchor, then position m in the anchor's
\* row of _expand_exclude_same, then atom), and the rows of the reshaped
\* logits that belong to i; each logit is written as the flat index of the
\* atomic row it was computed from.  choices[m] is what multinomial returned
\* for row m of probs, and line 546 indexes theta with it as it is
correction_atoms(theta, x, num_atoms, i, choices) ==
    LET batch_size == size(theta)
        reduced_batch_size == batch_size - 1
        e == expand_exclude_same(x)
        xx == [g \in 0..(batch_size * reduced_batch_size - 1) |->
                  e[g \div reduced_batch_size][g % reduced_batch_size]]
        tt == expand_exclude_same(theta)
        repeated_xx == repeat_rows(xx, num_atoms)
        cat(a, m) == [k \in 0..(num_atoms - 1) |->
                         IF k = 0 THEN tt[a][m] ELSE theta[choices[m][k]]]
        first == i * reduced_batch_size * num_atoms
    IN  [rows |-> size(repeated_xx),
         atoms |-> [f \in first..(first + reduced_batch_size * num_atoms - 1) |->
                       [theta |-> cat(i, (f \div num_atoms) % reduced_batch_size)
                                     [f % num_atoms],
                        x |-> repeated_xx[f]]],
         logits |-> [r \in (i * num_atoms)..(i * num_atoms + num_atoms - 1) |->
                        [c \in 0..(reduced_batch_size - 1) |->
                            r * reduced_batch_size + c]]]

\* one call of _correction_logits on the minibatch, seen at anchor row i.
\* _loss_terms calls it after _classifier_logits, which raises on a minibatch
\* of one row
correction_logits(i, o) ==
    LET theta == batch(args.batch_size)
        x == batch(args.batch_size)
    IN  /\ pc = "idle"
        /\ args.batch_size >= 2
        /\ outcome' =
             IF o.raised
             THEN [op |-> "_correction_logits", status |-> "RuntimeError",
                   kind |-> "none", anchor |-> i, value |-> <<>>]
             ELSE [op |-> "_correction_logits", status |-> "returned",
                   kind |-> "atoms", anchor |-> i,
                   value |-> correction_atoms(theta, x, args.num_atoms, i, o.choices)]
        /\ UNCHANGED <<store_vars, train_vars, post_vars, nets, pc, args, handed, n>>

\* A minibatch of 1..MaxBatch rows and an atom count of 2..MaxAtoms.
InitSampler ==
    /\ Constructed
    /\ args \in {[op |-> "none", batch_size |-> b, num_atoms |-> k] :
                 b \in 1..MaxBatch, k \in 2..MaxAtoms}

NextSampler ==
    \/ \E i \in 0..(args.batch_size - 1) :
          \E o \in multinomial(probs(args.batch_size)[i], args.num_atoms - 1) :
             classifier_logits(i, o)
    \/ \E i \in 0..(args.batch_size - 1) :
          \E o \in multinomial_rows(probs(args.batch_size - 1), args.num_atoms - 1) :
             correction_logits(i, o)

SpecSampler == InitSampler /\ [][NextSampler]_vars

\* ------------------------------------------------------------------ claims

InCall == pc # "idle"
CurrentRound == Max(Range(data_round_index))
AllBatches == 1..Len(data_round_index)

\* C1: in every train / anneal call the training set is all stored batches when
\* discard_prior_samples is False, and, when it is True and the highest stored
\* round is > 0, exactly the batches not tagged round 0 - the first train call
\* after data of a later round was appended included.
C1_DiscardExcludesRoundZero ==
    InCall =>
        /\ ~args.discard => args.dataset = AllBatches
        /\ (args.discard /\ CurrentRound > 0) =>
               args.dataset = {k \in AllBatches : data_round_index[k] # 0}

\* C2: a train call with resume_training=True keeps the optimizer object of the
\* call before it and goes on counting epochs from where that call stopped.
C2_ResumeContinues ==
    (args.op = "train" /\ args.resume) =>
        /\ optimizer.id = args.old_opt
        /\ epoch = args.old_epoch + args.epochs_run
        /\ epoch >= args.old_epoch

C2_Witness ==
    /\ pc = "exit" /\ args.op = "train" /\ args.resume /\ train_done
    /\ args.old_epoch > 0 /\ args.epochs_run > 0

\* C3: with resume_training=False, when the first loop test of train or anneal
\* is reached a new optimizer over the current network exists, the epoch
\* counter is 0 and the last validation log-prob is -Inf.
C3_FreshStartResets ==
    (pc = "loop" /\ args.epochs_run = 0 /\ ~args.resume) =>
        /\ optimizer.id > args.old_opt
        /\ optimizer.net = neural_net
        /\ neural_net # 0
        /\ epoch = 0
        /\ val_log_prob = NegInf

C3_Witness ==
    /\ pc = "loop" /\ args.epochs_run = 0 /\ ~args.resume
    /\ args.old_epoch > 0 /\ args.old_opt > 0 /\ args.retrain

C5_AnnealRunsAllEpochs ==
    (args.op = "anneal" /\ ~args.resume /\ pc = "idle"
       /\ outcome.status # "ValueError") =>
        /\ outcome.status = "returned"
        /\ args.epochs_run = args.max
        /\ epoch = args.max

\* C6: a network returned by train / anneal is an object of its own: it is
\* neither the internal network nor the optimizer's, and its parameters stay
\* what they were when it was returned, whatever is called later.
C6_ReturnedNetsUntouched ==
    \A h \in handed.snap :
        /\ nets[h[1]] = h[2]
        /\ h[1] # neural_net
        /\ h[1] # optimizer.net

C6_Witness ==
    /\ pc = "idle" /\ outcome.status = "returned" /\ outcome.kind = "net"
    /\ ~args.retrain /\ args.epochs_run > 0
    /\ \E h \in handed.snap : h[1] # outcome.value /\ nets[neural_net] # h[2]

BuildStep == args'.op = "build_posterior" /\ n'.builds = n.builds + 1

\* C7: build_posterior with a sample_with other than "mcmc" / "rejection" ends
\* with NotImplementedError and leaves the posterior history, the current
\* posterior and every posterior object as they were.
C7_UnsupportedLeavesHistory ==
    [][(BuildStep /\ args'.sample_with \notin {"mcmc", "rejection"}) =>
          /\ outcome'.status = "NotImplementedError"
          /\ model_bank' = model_bank
          /\ posterior' = posterior
          /\ posts' = posts]_vars

C7_Witness ==
    /\ args.op = "build_posterior" /\ args.sample_with = "vi"
    /\ outcome.status = "NotImplementedError"
    /\ model_bank # <<>> /\ posterior # 0

\* C8: the history grows by exactly one entry per build_posterior call that
\* returns and never otherwise, its length is the number of such calls, and
\* its earlier entries stay; the stored entry, the returned posterior and the
\* current internal posterior are three objects, so a change the caller makes
\* to a returned posterior reaches neither the history nor the internal one.
C8_HistoryAppendOnly ==
    [][/\ Len(model_bank') = n'.built
       /\ Len(model_bank') >= Len(model_bank)
       /\ SubSeq(model_bank', 1, Len(model_bank)) = model_bank
       /\ \A k \in 1..Len(model_bank) : posts'[model_bank[k]] = posts[model_bank[k]]
       /\ (BuildStep /\ outcome'.status = "returned") =>
             /\ Len(model_bank') = Len(model_bank) + 1
             /\ Cardinality({posterior', model_bank'[Len(model_bank')],
                             outcome'.value}) = 3
       /\ \A a \in handed.post :
             posts'[a] # posts[a] =>
                /\ a # posterior /\ a \notin Range(model_bank)
                /\ \A b \in (1..Len(posts)) \ {a} : posts'[b] = posts[b]]_vars

C8_Witness ==
    /\ Len(model_bank) = 2
    /\ \E a \in handed.post : posts[a].mark = 1
    /\ posts[posterior].mark = 0
    /\ \A k \in 1..2 : posts[model_bank[k]].mark = 0

\* C9: the posterior that build_posterior builds rests on the density_estimator
\* argument when one is given, and on the internal network when it is None.
C9_PosteriorUsesGivenEstimator ==
    (args.op = "build_posterior" /\ outcome.status = "returned") =>
        posts[posterior].src = IF args.est # 0 THEN args.est ELSE neural_net

AppendStep == args'.op = "append_simulations" /\ n'.calls = n.calls + 1

StoresAligned ==
    /\ Len(x_roundwise) = Len(theta_roundwise)
    /\ Len(prior_masks) = Len(theta_roundwise)
    /\ Len(data_round_index) = Len(theta_roundwise)
    /\ \A k \in 1..Len(theta_roundwise) :
          /\ x_roundwise[k].batch = theta_roundwise[k].batch
          /\ x_roundwise[k].rows = theta_roundwise[k].rows
          /\ prior_masks[k] = [i \in 1..theta_roundwise[k].rows |->
                                  data_round_index[k] = 0]
          /\ \A j \in 1..(k - 1) :
                theta_roundwise[j].batch < theta_roundwise[k].batch

\* C10: append_simulations with equal row counts adds one entry to each of the
\* four stores, keeps the earlier entries and returns the object itself; with
\* unequal row counts it fails and adds nothing; so the stores always have one
\* length and entry k of each comes from the k-th successful call.
C10_AppendAllOrNothing ==
    [][/\ StoresAligned'
       /\ AppendStep =>
             IF args'.theta_rows = args'.x_rows
             THEN /\ outcome'.status = "returned" /\ outcome'.kind = "self"
                  /\ Len(theta_roundwise') = Len(theta_roundwise) + 1
                  /\ SubSeq(theta_roundwise', 1, Len(theta_roundwise)) = theta_roundwise
                  /\ SubSeq(x_roundwise', 1, Len(x_roundwise)) = x_roundwise
                  /\ SubSeq(prior_masks', 1, Len(prior_masks)) = prior_masks
                  /\ SubSeq(data_round_index', 1, Len(data_round_index))
                        = data_round_index
                  /\ theta_roundwise'[Len(theta_roundwise')].batch = n'.calls
             ELSE /\ outcome'.status # "returned"
                  /\ UNCHANGED store_vars]_vars

C10_Witness ==
    /\ Len(theta_roundwise) = 2
    /\ theta_roundwise[2].batch = 3
    /\ data_round_index[1] # data_round_index[2]

\* C11: in every train and anneal call the atom count that the loss is given
\* lies between 2 and min(training batch size, validation batch size), where
\* the validation batch size is the number of rows of one validation
\* minibatch; it exceeds the rows of neither loader's minibatches.
C11_AtomCountWithinBatches ==
    args.op \in {"train", "anneal"} =>
        /\ args.num_atoms >= 2
        /\ args.num_atoms <= Min({args.training_batch_size,
                                  args.val_loader.batch_size})
        /\ args.num_atoms <= args.train_loader.batch_size

\* equality of two fractions
SameFraction(a, b) == a.num * b.den = b.num * a.den

\* C12: the validation log-prob of an epoch of train (the value recorded in
\* validation_log_probs and compared with the best one so far) is computed
\* from the objective term entropy_yw alone, not from the mixed loss, so that
\* it is the same whatever lagrange_multiplier is.
C12_ValidationUsesObjectiveOnly ==
    (outcome.op = "validation" /\ outcome.status = "returned") =>
        SameFraction(outcome.value.val_log_prob,
                     [num |-> 0 - args.entropy_yw, den |-> 1 * args.batch_size])

\* the thetas at atom positions 1 .. num_atoms - 1 of the atom set that starts
\* at flat row first: the batch rows they were taken from
Alternates(atoms, first, num_atoms) ==
    [k \in 1..(num_atoms - 1) |-> atoms[first + k].theta]

PairwiseDistinct(s) == \A a, c \in DOMAIN s : a # c => s[a] # s[c]

\* C13: for a minibatch of N >= 3 rows, an atom count K with 2 <= K <= N and
\* every outcome of the draw, the primary atomic batch has N * K rows; for
\* every anchor i the rows i*K .. i*K+K-1 carry x_i, the first of them carries
\* theta_i and the other K - 1 carry the thetas of K - 1 pairwise distinct
\* batch rows, none of them row i.
C13_PrimaryAtomSets ==
    (outcome.op = "_classifier_logits" /\ args.batch_size >= 3
       /\ args.num_atoms >= 2 /\ args.num_atoms <= args.batch_size) =>
        LET N == args.batch_size
            K == args.num_atoms
            i == outcome.anchor
            v == outcome.value
            alt == Alternates(v.atoms, i * K, K)
        IN  /\ outcome.status = "returned"
            /\ v.rows = N * K
            /\ DOMAIN v.atoms = (i * K)..(i * K + K - 1)
            /\ \A f \in DOMAIN v.atoms : v.atoms[f].x = i
            /\ v.atoms[i * K].theta = i
            /\ \A k \in DOMAIN alt : alt[k] \in (0..(N - 1)) \ {i}
            /\ PairwiseDistinct(alt)

C13_Witness ==
    /\ outcome.op = "_classifier_logits" /\ outcome.status = "returned"
    /\ args.batch_size = 4 /\ args.num_atoms = 3 /\ outcome.anchor = 2
    /\ Alternates(outcome.value.atoms, 6, 3) = <<3, 0>>

\* the m-th batch row other than row i, counted from 0: the row j of the
\* ordered pair (i, j) that the atom set number i * (N - 1) + m is built for
LeftOut(N, i, m) ==
    CHOOSE j \in (0..(N - 1)) \ {i} :
        Cardinality({h \in (0..(N - 1)) \ {i} : h < j}) = m

\* C14: in the correction atomic batch, for every ordered pair (i, j), j # i,
\* and every outcome of the draw, the K - 1 resampled thetas of the atom set
\* of (i, j) come from pairwise distinct batch rows, none of them row i or
\* row j.  (Stated for minibatches that have the K - 1 rows to draw from.)
C14_CorrectionAlternatesExcludePair ==
    (outcome.op = "_correction_logits" /\ outcome.status = "returned"
       /\ args.num_atoms - 1 <= args.batch_size - 2) =>
        LET N == args.batch_size
            K == args.num_atoms
            i == outcome.anchor
        IN  \A m \in 0..(N - 2) :
               LET alt == Alternates(outcome.value.atoms, (i * (N - 1) + m) * K, K)
               IN  /\ PairwiseDistinct(alt)
                   /\ \A k \in DOMAIN alt : alt[k] \notin {i, LeftOut(N, i, m)}

\* C15: for every lambda in [0, 1] _loss returns (entropy_yw, entropy_zw +
\* exp_neg_entropy_zw, mixed) with mixed = (1 - lambda) * entropy_yw - lambda *
\* (entropy_zw + exp_neg_entropy_zw); with lambda = 0 mixed is entropy_yw and
\* with lambda = 1 it is -(entropy_zw + exp_neg_entropy_zw); each of the three
\* terms of _loss_terms has N * K elements.  (Values of mixed in hundredths.)
C15_LossTripleSampleWise ==
    (outcome.op = "_loss" /\ outcome.status = "returned") =>
        LET terms == loss_terms(args.batch_size, args.num_atoms, args).terms
            reg == args.entropy_zw + args.exp_neg_entropy_zw
        IN  /\ outcome.value[1].val = args.entropy_yw
            /\ outcome.value[2].val = reg
            /\ outcome.value[3].val =
                  (LambdaDen - args.lagrange) * args.entropy_yw - args.lagrange * reg
            /\ args.lagrange = 0 =>
                  outcome.value[3].val = LambdaDen * args.entropy_yw
            /\ args.lagrange = LambdaDen =>
                  outcome.value[3].val = 0 - LambdaDen * reg
            /\ \A t \in 1..3 :
                  numel(terms[t].shape) = args.batch_size * args.num_atoms

\* C16: when the minibatch has fewer than K - 1 rows to draw the alternates
\* from (rows other than i for the primary batch, rows other than i and j for
\* the correction batch), the draw ends with an error that aborts the call; no
\* atom set with a repeated row, an excluded row or fewer than K candidates
\* is returned.
C16_TooFewRowsRaises ==
    /\ (outcome.op = "_classifier_logits"
          /\ args.batch_size - 1 < args.num_atoms - 1) =>
             outcome.status = "RuntimeError"
    /\ (outcome.op = "_correction_logits"
          /\ args.batch_size - 2 < args.num_atoms - 1) =>
             outcome.status = "RuntimeError"

\* C17: the correction atomic batch has N * (N - 1) * K rows, one atom set of
\* K rows for every ordered pair (i, j), j # i; every row of the atom set of
\* (i, j) carries x_j, and its first row carries theta_i, the theta of the
\* anchor, not the theta that is paired with x_j.
C17_CorrectionFirstRowIsAnchor ==
    (outcome.op = "_correction_logits" /\ outcome.status = "returned") =>
        LET N == args.batch_size
            K == args.num_atoms
            i == outcome.anchor
            v == outcome.value
        IN  /\ v.rows = N * (N - 1) * K
            /\ \A m \in 0..(N - 2) :
                  LET first == (i * (N - 1) + m) * K
                  IN  /\ \A k \in 0..(K - 1) : v.atoms[first + k].x = LeftOut(N, i, m)
                      /\ v.atoms[first].theta = i

\* C17, amended: the correction atomic batch has N * (N - 1) * K rows, one
\* atom set of K rows for every ordered pair (i, j), j # i; every row of the
\* atom set of (i, j) carries x_j, and its first row carries theta_j, the
\* theta that is paired with x_j; the anchor's theta_i is not put there.
C17_CorrectionFirstRowIsLeftOut ==
    (outcome.op = "_correction_logits" /\ outcome.status = "returned") =>
        LET N == args.batch_size
            K == args.num_atoms
            i == outcome.anchor
            v == outcome.value
        IN  /\ v.rows = N * (N - 1) * K
            /\ DOMAIN v.atoms = (i * (N - 1) * K)..((i + 1) * (N - 1) * K - 1)
            /\ \A m \in 0..(N - 2) :
                  LET first == (i * (N - 1) + m) * K
                  IN  /\ \A k \in 0..(K - 1) : v.atoms[first + k].x = LeftOut(N, i, m)
                      /\ v.atoms[first].theta = LeftOut(N, i, m)
                      /\ v.atoms[first].theta # i

C17_Witness ==
    /\ outcome.op = "_correction_logits" /\ outcome.status = "returned"
    /\ args.batch_size = 4 /\ args.num_atoms = 2 /\ outcome.anchor = 2
    /\ outcome.value.atoms[16] = [theta |-> 3, x |-> 3]
    /\ outcome.value.atoms[17].x = 3
    /\ outcome.value.atoms[12] = [theta |-> 0, x |-> 0]

\* the anchor, the left-out position and the atom position of the atomic row
\* with flat index f, in the flat order anchor, left-out row, atom
FlatAnchor(N, K, f) == f \div ((N - 1) * K)
FlatLeftOut(N, K, f) == (f \div K) % (N - 1)
FlatAtom(N, K, f) == f % K

\* C20: after the correction logits, computed in the flat order anchor i,
\* left-out row j, atom position k, are reshaped to [K * N, N - 1], every row
\* of the matrix holds the N - 1 logits of one anchor at one atom position,
\* one for each of the N - 1 left-out rows; the reduction over the last
\* dimension mixes neither atom positions nor anchors.
C20_ReshapedRowsAreLeaveOneOut ==
    (outcome.op = "_correction_logits" /\ outcome.status = "returned") =>
        LET N == args.batch_size
            K == args.num_atoms
            rows == outcome.value.logits
        IN  \A r \in DOMAIN rows :
               /\ \A c, d \in DOMAIN rows[r] :
                     /\ FlatAnchor(N, K, rows[r][c]) = FlatAnchor(N, K, rows[r][d])
                     /\ FlatAtom(N, K, rows[r][c]) = FlatAtom(N, K, rows[r][d])
               /\ {FlatLeftOut(N, K, rows[r][c]) : c \in DOMAIN rows[r]} = 0..(N - 2)

\* C18: every epoch of anneal that starts with the epoch counter at e gives
\* _loss the weight lambda(e) = target + (0.01 - target) * exp(-annealing_rate
\* * e) in its training pass, computed from the counter before it is
\* incremented (0.01 in the first epoch of a call that does not resume, the
\* stored counter in one that does), and the caller's un-annealed
\* lagrange_multiplier in its validation pass.
C18_AnnealSchedule ==
    [][(pc = "body" /\ args.op = "anneal") =>
          /\ args'.loss_lambda = law_of_cooling(args.lagrange, epoch)
          /\ (~args.resume /\ args.epochs_run = 0) =>
                SameFraction(args'.loss_lambda, [num |-> epsilon, den |-> LambdaDen])
          /\ args.resume => epoch >= args.old_epoch
          /\ args'.val_lambda = target(args.lagrange)]_vars

\* C19: in every epoch of every train / anneal call, whatever calls came
\* before and whatever resume_training and retrain_from_scratch are, the
\* parameters the optimizer steps are those of the current internal network;
\* also when the network is rebuilt in a call that resumes.
C19_OptimizerStepsCurrentNet ==
    pc = "body" => (optimizer.id # 0 /\ optimizer.net = neural_net)
====
